---- MODULE Spec2Model ----
(***************************************************************************)
(* The three multi-GPU example drivers of examples/multi_gpu:             *)
(*   mag240m      mag240m_graphsage.py                                      *)
(*   singlenode   singlenode_multigpu_papers100m_gcn.py                     *)
(*   multinode    papers100m_gcn_multinode.py                               *)
(* The module models the code of the repository: the worker-count          *)
(* heuristic, the launcher (__main__), and the per-rank function (run /    *)
(* run_train) with its index split, training loop, evaluation passes and   *)
(* tear-down.  The external libraries are modelled by what the scripts     *)
(* rely on: Tensor.split, the length of a loader, collectives that         *)
(* complete once every rank of the group has entered them, and             *)
(* mp.spawn's join.                                                        *)
(***************************************************************************)
EXTENDS Integers, Sequences, FiniteSets, TLC

(***************************************************************************)
(* Bounds of the model.                                                    *)
(***************************************************************************)
MaxWorld == 2        \* largest number of GPUs / ranks explored
MaxCpus == 6         \* largest CPU (affinity) count explored
MaxBatches == 2      \* loader lengths explored: 0..MaxBatches around each threshold
MaxRem == 1          \* index counts explored beyond a multiple of world_size
MaxEpochs == 2       \* largest --epochs explored
BatchSize == 2       \* the --batch_size explored

(***************************************************************************)
(* Program constants.                                                      *)
(***************************************************************************)
eval_steps_papers == 1000   \* eval_steps = 1000
warmup_steps == 20          \* warmup_steps = 20
AvgTimeOffset == 10         \* (i - 10) in the multi-node timing print
AccThreshold == 68          \* assert final_test_acc >= 68.0
WarmupDefault == 100        \* --num_warmup_iters_for_timing default
ParamsRunMag == 13          \* parameters of run, rank included
ParamsRunTrainSingle == 10  \* parameters of run_train (single node), rank included
ParamsRunTrainMulti == 9    \* parameters of run_train (multi node)
ArgsSpawnMag == 12          \* args tuple of mp.spawn(run, ...)
ArgsDirectMag == 13         \* arguments of the in-process run(0, ...)
ArgsSpawnSingle == 9        \* args tuple of mp.spawn(run_train, ...)
ArgsDirectMulti == 10       \* arguments of run_train(...) in the multi-node __main__
log_every_papers == 10      \* i % 10 in the papers100m logging condition

Scripts == {"mag240m", "singlenode", "multinode"}
Unbound == -1        \* a Python local that has not been assigned (or None)
Ranks == 0..(MaxWorld - 1)

Min(a, b) == IF a < b THEN a ELSE b
CeilDiv(a, b) == (a + b - 1) \div b

VARIABLES
  script,             \* which of the three drivers runs
  \* ---- get_num_workers
  has_sched_getaffinity, affinity_raises, affinity_count, cpu_count,
  gw_pc, num_workers,
  \* ---- inputs of a run
  cuda_available, device_count, req_n_devices, env_world_size,
  num_epochs, num_steps_per_epoch, eval_steps, num_warmup_iters_for_timing,
  batch_size, n_train, n_valid, n_test, acc_val, log_every_n_steps,
  \* ---- launcher (__main__)
  lpc, n_devices, world_size, spawn_calls, run_calls, lexc, hint_printed,
  \* ---- per-rank function (run / run_train)
  pc, err, pg, train_idx, eval_idx, test_idx,
  epoch, n_iter, i, loss, start, ops, steps,
  acc_sum, acc_den, n_evaluated, wait_kind, printed, saved,
  \* ---- where a rank's exception was raised; the barriers a rank has passed
  raised_at, barriers

gwvars == <<has_sched_getaffinity, affinity_raises, affinity_count, cpu_count,
            gw_pc, num_workers>>
inputs == <<script, cuda_available, device_count, req_n_devices,
            env_world_size,
            num_epochs, num_steps_per_epoch, eval_steps,
            num_warmup_iters_for_timing, batch_size, n_train, n_valid, n_test,
            acc_val, log_every_n_steps>>
lvars == <<lpc, n_devices, world_size, spawn_calls, run_calls, lexc, hint_printed>>
idxvars == <<train_idx, eval_idx, test_idx>>
loopvars == <<epoch, n_iter, i, loss, start, ops, steps>>
accvars == <<acc_sum, acc_den, n_evaluated, printed>>
tracevars == <<raised_at, barriers>>
rvars == <<pc, err, pg, idxvars, loopvars, accvars, wait_kind, saved, tracevars>>
vars == <<gwvars, inputs, lvars, rvars>>

(***************************************************************************)
(* Values of the variable groups a specification does not use.             *)
(***************************************************************************)
GwIdle ==
  /\ has_sched_getaffinity = FALSE /\ affinity_raises = FALSE
  /\ affinity_count = 1 /\ cpu_count = 1
  /\ gw_pc = "idle" /\ num_workers = Unbound

LaunchInputsIdle ==
  /\ cuda_available = FALSE /\ device_count = 0 /\ req_n_devices = 0
  /\ env_world_size = 1

RunInputsIdle ==
  /\ LaunchInputsIdle
  /\ num_epochs = 0 /\ num_steps_per_epoch = -1 /\ eval_steps = 0
  /\ num_warmup_iters_for_timing = 0 /\ batch_size = 1
  /\ n_train = 0 /\ n_valid = 0 /\ n_test = 0 /\ acc_val = 0
  /\ log_every_n_steps = 1

LauncherIdle ==
  /\ lpc = "idle" /\ spawn_calls = 0 /\ run_calls = 0
  /\ lexc = "none" /\ hint_printed = FALSE

NoChunk == [start |-> 0, length |-> 0]

RanksInit(pc0, pg0) ==
  /\ pc = [r \in Ranks |-> pc0[r]]
  /\ err = [r \in Ranks |-> "none"]
  /\ pg = [r \in Ranks |-> pg0[r]]
  /\ train_idx = [r \in Ranks |-> NoChunk]
  /\ eval_idx = [r \in Ranks |-> NoChunk]
  /\ test_idx = [r \in Ranks |-> NoChunk]
  /\ epoch = [r \in Ranks |-> 0]
  /\ n_iter = [r \in Ranks |-> 0]
  /\ i = [r \in Ranks |-> Unbound]
  /\ loss = [r \in Ranks |-> FALSE]
  /\ start = [r \in Ranks |-> FALSE]
  /\ ops = [r \in Ranks |-> << >>]
  /\ steps = [r \in Ranks |-> 0]
  /\ acc_sum = [r \in Ranks |-> 0]
  /\ acc_den = [r \in Ranks |-> 0]
  /\ n_evaluated = [r \in Ranks |-> 0]
  /\ wait_kind = [r \in Ranks |-> "none"]
  /\ printed = [r \in Ranks |-> << >>]
  /\ saved = [r \in Ranks |-> FALSE]
  /\ raised_at = [r \in Ranks |-> "none"]
  /\ barriers = [r \in Ranks |-> 0]

RanksIdle == RanksInit([r \in Ranks |-> "idle"], [r \in Ranks |-> FALSE])

(***************************************************************************)
(* get_num_workers: the two papers100m scripts.                            *)
(***************************************************************************)
\* The single-node script divides by 2 * world_size, the multi-node one by 2.
FactorNoWorld(s, ws) == 2

Factor(s, ws) == IF s = "singlenode" THEN 2 * ws ELSE 2

\* if hasattr(os, "sched_getaffinity"): try: num_workers = len(...) // factor
\* except Exception: pass
GwAffinity ==
  /\ gw_pc = "start"
  /\ num_workers' = IF has_sched_getaffinity /\ ~affinity_raises
                    THEN affinity_count \div Factor(script, world_size)
                    ELSE num_workers
  /\ gw_pc' = "check"
  /\ UNCHANGED <<has_sched_getaffinity, affinity_raises, affinity_count,
                 cpu_count, inputs, lvars, rvars>>

\* if num_workers is None: num_workers = os.cpu_count() // factor
GwFallback ==
  /\ gw_pc = "check"
  /\ num_workers = Unbound
  /\ num_workers' = cpu_count \div Factor(script, world_size)
  /\ UNCHANGED <<has_sched_getaffinity, affinity_raises, affinity_count,
                 cpu_count, gw_pc, inputs, lvars, rvars>>

\* return num_workers
GwReturn ==
  /\ gw_pc = "check"
  /\ num_workers # Unbound
  /\ gw_pc' = "returned"
  /\ UNCHANGED <<has_sched_getaffinity, affinity_raises, affinity_count,
                 cpu_count, num_workers, inputs, lvars, rvars>>

InitWorkers ==
  /\ script \in {"singlenode", "multinode"}
  /\ has_sched_getaffinity \in BOOLEAN
  /\ affinity_raises \in BOOLEAN
  /\ affinity_count \in 1..MaxCpus
  /\ cpu_count \in 1..MaxCpus
  /\ gw_pc = "start" /\ num_workers = Unbound
  /\ RunInputsIdle
  /\ LauncherIdle /\ world_size \in 1..MaxWorld /\ n_devices = world_size
  /\ RanksIdle

NextWorkers == GwAffinity \/ GwFallback \/ GwReturn

SpecWorkers == InitWorkers /\ [][NextWorkers]_vars

\* C1: get_num_workers returns a positive integer (>= 1) for every
\* world_size >= 1 and every CPU (affinity) count >= 1.
C1_PositiveWorkers == gw_pc = "returned" => num_workers >= 1

\* C2: get_num_workers returns floor(affinity_count / factor) when the
\* affinity query is available and succeeds, and floor(cpu_count / factor)
\* only when it is unavailable or raises; factor is 2 in the multi-node
\* script and 2 * world_size in the single-node script.
C2_WorkersFormula ==
  gw_pc = "returned" =>
    LET factor == IF script = "multinode" THEN 2 ELSE 2 * world_size
    IN  num_workers = IF has_sched_getaffinity /\ ~affinity_raises
                      THEN affinity_count \div factor
                      ELSE cpu_count \div factor

\* A single-node call on two GPUs whose affinity query answered with a count
\* different from the total CPU count has returned.
C2_Witness ==
  /\ gw_pc = "returned" /\ script = "singlenode" /\ world_size = 2
  /\ has_sched_getaffinity /\ ~affinity_raises
  /\ affinity_count \div 4 # cpu_count \div 4
  /\ affinity_count \div 4 # affinity_count \div 2

(***************************************************************************)
(* The per-rank function: run (mag240m) and run_train (papers100m).        *)
(***************************************************************************)
Active(r) == r < world_size

\* The number of processes the training indices are split over.
SplitWorld == IF script = "mag240m" THEN n_devices ELSE world_size

\* if n_devices > 1: (mag240m); the papers100m scripts always split and wrap.
Distributed == IF script = "mag240m" THEN n_devices > 1 ELSE TRUE

\* Tensor.split(split_size): ceil(N / split_size) chunks, at least one; every
\* chunk holds split_size entries but the last, which holds the rest.  A
\* split size of 0 (accepted for an empty tensor alone) gives one empty chunk.
NumChunks(N, size) ==
  IF size = 0 THEN 1
  ELSE IF CeilDiv(N, size) > 1 THEN CeilDiv(N, size) ELSE 1

Chunk(N, size, j) ==
  [start |-> j * size, length |-> Min(size, N - j * size)]

Whole(N) == [start |-> 0, length |-> N]

\* idx.split(idx.size(0) // world_size)[rank]
ShardOfCeil(N, ws, r) == Chunk(N, CeilDiv(N, ws), r)

ShardOf(N, ws, r) == Chunk(N, N \div ws, r)

\* mag240m splits the three index sets, the papers100m scripts the training
\* indices alone.
SplitsEval == script = "mag240m"

\* len(loader): drop_last drops the incomplete last batch.
LoaderLen(count, bs, drop_last) ==
  IF drop_last THEN count \div bs ELSE CeilDiv(count, bs)

TrainLen(r) == LoaderLen(train_idx[r].length, batch_size, TRUE)
EvalLen(r) == LoaderLen(eval_idx[r].length, batch_size, FALSE)
TestLen(r) == LoaderLen(test_idx[r].length, batch_size, FALSE)

Raise(r, e) ==
  /\ pc' = [pc EXCEPT ![r] = "raised"]
  /\ err' = [err EXCEPT ![r] = e]
  /\ raised_at' = [raised_at EXCEPT ![r] = pc[r]]
  /\ UNCHANGED barriers

Goto(r, where) ==
  /\ pc' = [pc EXCEPT ![r] = where]
  /\ UNCHANGED <<err, tracevars>>

\* Where a rank is: the statement it is at, the collective it is blocked in,
\* or the statement that raised.
Loc(r) ==
  IF pc[r] = "raised" THEN raised_at[r]
  ELSE IF pc[r] = "wait" THEN wait_kind[r]
  ELSE pc[r]

\* Entering a collective: the rank blocks until the group completes it.
EnterCollective(r, kind) ==
  /\ pc' = [pc EXCEPT ![r] = "wait"]
  /\ wait_kind' = [wait_kind EXCEPT ![r] = kind]
  /\ UNCHANGED <<err, tracevars>>

\* split() refuses a split size of 0 for a non-empty tensor
\* ("split_size can only be 0 if dimension size is 0").
SplitSizeOk(N) == N \div SplitWorld > 0 \/ N = 0

\* One statement `idx = idx.split(idx.size(0) // n)[rank]`: split() raises
\* first, then [rank] on the tuple of chunks.
SplitFailure(N, r) ==
  IF ~SplitSizeOk(N) THEN "RuntimeError"
  ELSE IF r >= NumChunks(N, N \div SplitWorld) THEN "IndexError"
  ELSE "none"

\* The statements run in program order (train_idx, then mag240m's eval_idx and
\* test_idx): a rank raises what the first failing statement raises.
SplitError(r) ==
  IF SplitFailure(n_train, r) # "none" THEN SplitFailure(n_train, r)
  ELSE IF ~SplitsEval THEN "none"
  ELSE IF SplitFailure(n_valid, r) # "none" THEN SplitFailure(n_valid, r)
  ELSE SplitFailure(n_test, r)

\* Split indices into `n_devices` many chunks
SplitIdx(r) ==
  /\ Active(r) /\ pc[r] = "split"
  /\ IF ~Distributed
     THEN /\ train_idx' = [train_idx EXCEPT ![r] = Whole(n_train)]
          /\ eval_idx' = [eval_idx EXCEPT ![r] = Whole(n_valid)]
          /\ test_idx' = [test_idx EXCEPT ![r] = Whole(n_test)]
          /\ Goto(r, "wrap")
     ELSE IF SplitError(r) # "none"
     THEN /\ Raise(r, SplitError(r))
          /\ UNCHANGED idxvars
     ELSE /\ train_idx' = [train_idx EXCEPT ![r] = ShardOf(n_train, SplitWorld, r)]
          /\ eval_idx' = [eval_idx EXCEPT ![r] =
                            IF SplitsEval THEN ShardOf(n_valid, SplitWorld, r)
                            ELSE Whole(n_valid)]
          /\ test_idx' = [test_idx EXCEPT ![r] =
                            IF SplitsEval THEN ShardOf(n_test, SplitWorld, r)
                            ELSE Whole(n_test)]
          /\ Goto(r, "wrap")
  /\ UNCHANGED <<gwvars, inputs, lvars, pg, loopvars, accvars, wait_kind, saved>>

\* model = DistributedDataParallel(model, device_ids=[rank]): the constructor
\* synchronises the parameters across the group, so a rank leaves it once
\* every rank has entered it.  mag240m wraps the model when n_devices > 1,
\* the papers100m scripts always.
Wrap(r) ==
  /\ Active(r) /\ pc[r] = "wrap"
  /\ IF Distributed
     THEN EnterCollective(r, "ddp")
     ELSE Goto(r, "epoch_loop") /\ UNCHANGED wait_kind
  /\ UNCHANGED <<gwvars, inputs, lvars, pg, idxvars, loopvars, accvars, saved>>

\* for epoch in range(...): and, once the epochs are over, mag240m's
\* `if n_devices > 1: dist.barrier()` before the test pass.
EpochLoop(r) ==
  /\ Active(r) /\ pc[r] = "epoch_loop"
  /\ IF epoch[r] < num_epochs
     THEN /\ n_iter' = [n_iter EXCEPT ![r] = 0]
          /\ steps' = [steps EXCEPT ![r] = 0]
          /\ Goto(r, "train_loop")
          /\ UNCHANGED wait_kind
     ELSE /\ UNCHANGED <<n_iter, steps>>
          /\ IF script = "mag240m" /\ n_devices > 1
             THEN EnterCollective(r, "barrier_final")
             ELSE Goto(r, "test") /\ UNCHANGED wait_kind
  /\ UNCHANGED <<gwvars, inputs, lvars, pg, idxvars, epoch, i, loss, start, ops,
                 accvars, saved>>

\* for i, batch in enumerate(train_loader): with mag240m's step limit
\* `if num_steps_per_epoch >= 0 and i >= num_steps_per_epoch: break` and the
\* papers100m scripts' `if i == warmup_steps: start = time.time()`.
StepLimitHit(j) ==
  script = "mag240m" /\ num_steps_per_epoch >= 0 /\ j >= num_steps_per_epoch

Fetch(r) ==
  /\ Active(r) /\ pc[r] = "train_loop"
  /\ IF n_iter[r] < TrainLen(r)
     THEN /\ i' = [i EXCEPT ![r] = n_iter[r]]
          /\ n_iter' = [n_iter EXCEPT ![r] = n_iter[r] + 1]
          /\ IF StepLimitHit(n_iter[r])
             THEN Goto(r, "after_train") /\ UNCHANGED <<ops, start>>
             ELSE /\ Goto(r, "body")
                  /\ ops' = [ops EXCEPT ![r] = << >>]
                  /\ start' = [start EXCEPT ![r] =
                                 start[r] \/ (script # "mag240m"
                                              /\ n_iter[r] = warmup_steps)]
     ELSE /\ Goto(r, "after_train")
          /\ UNCHANGED <<i, n_iter, ops, start>>
  /\ UNCHANGED <<gwvars, inputs, lvars, pg, idxvars, epoch, loss, steps,
                 accvars, wait_kind, saved>>

\* The statements of the loop body that train on the batch, in program order.
TrainBodyNoZeroGrad(s) == <<"forward", "loss", "backward", "step">>

TrainBody(s) == <<"zero_grad", "forward", "loss", "backward", "step">>

BodyStep(r) ==
  /\ Active(r) /\ pc[r] = "body"
  /\ LET stmt == TrainBody(script)[Len(ops[r]) + 1]
         last == Len(ops[r]) + 1 = Len(TrainBody(script))
     IN  /\ ops' = [ops EXCEPT ![r] = Append(ops[r], stmt)]
         /\ loss' = [loss EXCEPT ![r] = loss[r] \/ stmt = "loss"]
         /\ steps' = [steps EXCEPT ![r] =
                        IF stmt = "step" THEN steps[r] + 1 ELSE steps[r]]
         /\ IF stmt = "backward" /\ Distributed
            THEN EnterCollective(r, "grad")
            ELSE /\ Goto(r, IF last THEN "body_end" ELSE "body")
                 /\ UNCHANGED wait_kind
  /\ UNCHANGED <<gwvars, inputs, lvars, pg, idxvars, epoch, n_iter, i, start,
                 accvars, saved>>

\* The divisor of the logging condition: `i % log_every_n_steps` in mag240m,
\* `i % 10` in the papers100m scripts.
LogEvery == IF script = "mag240m" THEN log_every_n_steps ELSE log_every_papers

\* if rank == 0 and i % log_every_n_steps == 0: the modulo is evaluated on
\* rank 0 alone (`and` short-circuits on the other ranks).
LogRaises(r) == r = 0 /\ LogEvery = 0

\* The rest of the loop body: timing and logging.  The multi-node script
\* prints (time.time() - start) / (i - 10) inside the loop.
BodyEnd(r) ==
  /\ Active(r) /\ pc[r] = "body_end"
  /\ IF LogRaises(r)
     THEN Raise(r, "ZeroDivisionError")
     ELSE IF script = "multinode" /\ ~start[r]
     THEN Raise(r, "UnboundLocalError")
     ELSE IF script = "multinode" /\ i[r] - AvgTimeOffset = 0
     THEN Raise(r, "ZeroDivisionError")
     ELSE Goto(r, "train_loop")
  /\ UNCHANGED <<gwvars, inputs, lvars, pg, idxvars, loopvars, accvars,
                 wait_kind, saved>>

\* `if n_devices > 1: dist.barrier()` after the training loop of an epoch:
\* mag240m only.
BarrierAfterTrain(s, n) == s = "mag240m" /\ n > 1

\* After the training loop: mag240m's `if n_devices > 1: dist.barrier()`.
AfterTrain(r) ==
  /\ Active(r) /\ pc[r] = "after_train"
  /\ IF BarrierAfterTrain(script, n_devices)
     THEN EnterCollective(r, "barrier_epoch")
     ELSE Goto(r, "summary") /\ UNCHANGED wait_kind
  /\ UNCHANGED <<gwvars, inputs, lvars, pg, idxvars, loopvars, accvars, saved>>

\* The epoch summary print.  mag240m formats loss, sum_acc / i and
\* time_sum / (i - num_warmup_iters_for_timing); the single-node script
\* (time.time() - start) / (i - warmup_steps); the multi-node script prints
\* nothing here.
Summary(r) ==
  /\ Active(r) /\ pc[r] = "summary"
  /\ IF script = "mag240m"
     THEN IF ~loss[r] \/ i[r] = Unbound
          THEN Raise(r, "UnboundLocalError")
          ELSE IF (steps[r] = 0 /\ i[r] = 0)
                    \/ i[r] - num_warmup_iters_for_timing = 0
          THEN Raise(r, "ZeroDivisionError")
          ELSE Goto(r, "eval")
     ELSE IF script = "singlenode"
     THEN IF ~start[r]
          THEN Raise(r, "UnboundLocalError")
          ELSE IF i[r] - warmup_steps = 0
          THEN Raise(r, "ZeroDivisionError")
          ELSE Goto(r, "eval")
     ELSE Goto(r, "eval")
  /\ UNCHANGED <<gwvars, inputs, lvars, pg, idxvars, loopvars, accvars,
                 wait_kind, saved>>

\* for i, batch in enumerate(loader): [if i >= eval_steps: break]
\*     acc_sum += acc(...)
\* run to its end.  The loop breaks at the first index j < len with
\* j >= cap and leaves i = j; otherwise it exhausts the loader and leaves i at
\* the last index (or untouched, for an empty loader).  Every batch before
\* that adds its accuracy a to acc_sum.
BreakIndex(cap) == IF cap > 0 THEN cap ELSE 0

Breaks(len, capped, cap) == capped /\ BreakIndex(cap) < len

EvalLoop(len, capped, cap, a, st) ==
  LET n == IF Breaks(len, capped, cap) THEN BreakIndex(cap) ELSE len
  IN  [i |-> IF Breaks(len, capped, cap) THEN BreakIndex(cap)
             ELSE IF len > 0 THEN len - 1 ELSE st.i,
       acc_sum |-> st.acc_sum + n * a,
       n |-> st.n + n]

\* The validation loop is capped by eval_steps in all three scripts.
ValCapped(s) == TRUE

\* The test loop is capped by eval_steps in mag240m only.
TestCapped(s) == s = "mag240m"

EvalCap == IF script = "mag240m" THEN eval_steps ELSE eval_steps_papers

\* acc_sum = 0 and the validation loop over eval_loader.
EvalPass(r) ==
  /\ Active(r) /\ pc[r] = "eval"
  /\ LET res == EvalLoop(EvalLen(r), ValCapped(script), EvalCap, acc_val,
                         [i |-> i[r], acc_sum |-> 0, n |-> 0])
     IN  /\ i' = [i EXCEPT ![r] = res.i]
         /\ acc_sum' = [acc_sum EXCEPT ![r] = res.acc_sum]
         /\ acc_den' = [acc_den EXCEPT ![r] = 1]
         /\ n_evaluated' = [n_evaluated EXCEPT ![r] = res.n]
  /\ Goto(r, "val_reduce")
  /\ UNCHANGED <<gwvars, inputs, lvars, pg, idxvars, epoch, n_iter, loss, start,
                 ops, steps, printed, wait_kind, saved>>

\* acc_sum = 0 and the test loop over test_loader.
TestPass(r) ==
  /\ Active(r) /\ pc[r] = "test"
  /\ LET res == EvalLoop(TestLen(r), TestCapped(script), EvalCap, acc_val,
                         [i |-> i[r], acc_sum |-> 0, n |-> 0])
     IN  /\ i' = [i EXCEPT ![r] = res.i]
         /\ acc_sum' = [acc_sum EXCEPT ![r] = res.acc_sum]
         /\ acc_den' = [acc_den EXCEPT ![r] = 1]
         /\ n_evaluated' = [n_evaluated EXCEPT ![r] = res.n]
  /\ Goto(r, "test_reduce")
  /\ UNCHANGED <<gwvars, inputs, lvars, pg, idxvars, epoch, n_iter, loss, start,
                 ops, steps, printed, wait_kind, saved>>

\* torch.distributed.all_reduce(acc_sum, op=ReduceOp.MEAN): acc_sum is a
\* tensor only once a batch was added to it, and the call needs an
\* initialised process group.
AllReduce(r) ==
  /\ Active(r) /\ pc[r] \in {"val_reduce", "test_reduce"}
  /\ IF n_evaluated[r] = 0
     THEN Raise(r, "TypeError") /\ UNCHANGED wait_kind
     ELSE IF ~pg[r]
     THEN Raise(r, "NoProcessGroup") /\ UNCHANGED wait_kind
     ELSE EnterCollective(r, IF pc[r] = "val_reduce" THEN "ar_val" ELSE "ar_test")
  /\ UNCHANGED <<gwvars, inputs, lvars, pg, idxvars, loopvars, accvars, saved>>

CollType(kind) ==
  CASE kind \in {"ar_val", "ar_test"} -> "all_reduce"
    [] kind \in {"barrier_epoch", "barrier_final"} -> "barrier"
    [] OTHER -> kind

Resume(kind) ==
  CASE kind = "grad" -> "body"
    [] kind = "init" -> IF script = "mag240m" THEN "construct"
                        ELSE IF script = "singlenode" THEN "split"
                        ELSE "entry"
    [] kind = "ddp" -> "epoch_loop"
    [] kind = "barrier_epoch" -> "summary"
    [] kind = "barrier_final" -> "test"
    [] kind = "ar_val" -> "print_val"
    [] OTHER -> "print_test"

RECURSIVE SumRanks(_, _)
SumRanks(f, n) == IF n = 0 THEN 0 ELSE f[n - 1] + SumRanks(f, n - 1)

\* A collective completes once every rank of the group has entered the same
\* one; an all-reduce with ReduceOp.MEAN leaves sum / world_size on each rank
\* (kept as numerator acc_sum over denominator acc_den).
CollectiveComplete ==
  /\ world_size >= 1
  /\ \A r \in Ranks : Active(r) => pc[r] = "wait"
  /\ \A r \in Ranks : Active(r) => CollType(wait_kind[r]) = CollType(wait_kind[0])
  /\ pc' = [r \in Ranks |-> IF Active(r) THEN Resume(wait_kind[r]) ELSE pc[r]]
  /\ wait_kind' = [r \in Ranks |-> "none"]
  /\ barriers' = [r \in Ranks |->
                    IF Active(r) /\ CollType(wait_kind[r]) = "barrier"
                    THEN barriers[r] + 1 ELSE barriers[r]]
  /\ IF CollType(wait_kind[0]) = "all_reduce"
     THEN /\ acc_sum' = [r \in Ranks |->
                           IF Active(r) THEN SumRanks(acc_sum, world_size)
                           ELSE acc_sum[r]]
          /\ acc_den' = [r \in Ranks |->
                           IF Active(r) THEN world_size ELSE acc_den[r]]
     ELSE UNCHANGED <<acc_sum, acc_den>>
  /\ pg' = [r \in Ranks |->
               IF Active(r) /\ CollType(wait_kind[r]) = "init" THEN TRUE
               ELSE pg[r]]
  /\ n_devices' = IF script = "multinode" /\ CollType(wait_kind[0]) = "init"
                  THEN world_size ELSE n_devices
  /\ UNCHANGED <<gwvars, inputs, lpc, world_size, spawn_calls, run_calls,
                 lexc, hint_printed, err, idxvars, loopvars,
                 n_evaluated, printed, saved, raised_at>>

\* The divisor of the printed accuracy: acc_sum / (i + 1) in mag240m,
\* acc_sum / (i) in the papers100m scripts.
AccDivisor(s, iv) == IF s = "mag240m" THEN iv + 1 ELSE iv

\* print(f"Validation Accuracy: ...") / print(f"Test Accuracy: ...").  A
\* printed record keeps the all-reduced accuracy (num / den), the divisor
\* and the number of batches the pass evaluated.
PrintAcc(r) ==
  /\ Active(r) /\ pc[r] \in {"print_val", "print_test"}
  /\ printed' = [printed EXCEPT ![r] =
       Append(printed[r],
              [kind |-> IF pc[r] = "print_val" THEN "val" ELSE "test",
               num |-> acc_sum[r], den |-> acc_den[r],
               div |-> AccDivisor(script, i[r]),
               batches |-> n_evaluated[r]])]
  /\ IF pc[r] = "print_val"
     THEN /\ epoch' = [epoch EXCEPT ![r] = epoch[r] + 1]
          /\ Goto(r, "epoch_loop")
     ELSE /\ UNCHANGED epoch
          /\ Goto(r, "teardown")
  /\ UNCHANGED <<gwvars, inputs, lvars, pg, idxvars, n_iter, i, loss, start, ops,
                 steps, acc_sum, acc_den, n_evaluated, wait_kind, saved>>

\* Only mag240m ends with torch.save(model, 'trained_graphsage_for_mag240m.pt').
SavesModel(s) == s = "mag240m"

\* The save statement precedes the assert: it runs whether or not the
\* assertion passes.
SaveRuns(passed) == TRUE

\* final_test_acc = acc_sum / (i + 1) * 100.0 and
\* assert final_test_acc >= 68.0
AssertPasses(r) ==
  100 * acc_sum[r] >= AccThreshold * acc_den[r] * AccDivisor(script, i[r])

\* The end of the function.  mag240m: destroy_process_group if n_devices > 1,
\* torch.save, assert.  The papers100m functions return.
Teardown(r) ==
  /\ Active(r) /\ pc[r] = "teardown"
  /\ IF SavesModel(script)
     THEN /\ pg' = [pg EXCEPT ![r] = IF n_devices > 1 THEN FALSE ELSE pg[r]]
          /\ saved' = [saved EXCEPT ![r] = SaveRuns(AssertPasses(r))]
          /\ IF AssertPasses(r) THEN Goto(r, "done")
             ELSE Raise(r, "AssertionError")
     ELSE /\ UNCHANGED <<pg, saved>>
          /\ Goto(r, "done")
  /\ UNCHANGED <<gwvars, inputs, lvars, idxvars, loopvars, accvars, wait_kind>>


(***************************************************************************)
(* The launchers (__main__) and the start of the per-rank function.        *)
(***************************************************************************)
\* The number of parameters of the per-rank function.
Params(s) ==
  CASE s = "mag240m" -> ParamsRunMag
    [] s = "singlenode" -> ParamsRunTrainSingle
    [] OTHER -> ParamsRunTrainMulti

\* The number of positional arguments the launcher's call hands over:
\* mp.spawn calls fn(rank, *args).
ArgsGiven(s, spawned) ==
  CASE s = "mag240m" -> IF spawned THEN ArgsSpawnMag + 1 ELSE ArgsDirectMag
    [] s = "singlenode" -> ArgsSpawnSingle + 1
    [] OTHER -> ArgsDirectMulti

CallMatches(s, spawned) == ArgsGiven(s, spawned) = Params(s)

\* if not torch.cuda.is_available(): args.n_devices = 0
\* if args.n_devices > torch.cuda.device_count():
\*     args.n_devices = torch.cuda.device_count()
EffectiveDevicesNoClamp(avail, count, req) == IF ~avail THEN 0 ELSE req

EffectiveDevices(avail, count, req) ==
  LET n == IF ~avail THEN 0 ELSE req
  IN  IF n > count THEN count ELSE n

\* mag240m takes the mp.spawn path when args.n_devices > 1; the single-node
\* script always spawns; the multi-node script calls run_train in-process.
Spawns(s, n) ==
  CASE s = "mag240m" -> n > 1
    [] s = "singlenode" -> TRUE
    [] OTHER -> FALSE

\* except ProcessExitedException as e: (mag240m, around mp.spawn only)
CatchesAnyProcessException(s, e) ==
  s = "mag240m" /\ e \in {"ProcessExitedException", "ProcessRaisedException"}

Catches(s, e) == s = "mag240m" /\ e = "ProcessExitedException"

\* Argument parsing, device selection, data set and model loading.  The
\* multi-node script is started once per process of the job by an external
\* launcher (WORLD_SIZE processes), each of which runs __main__ itself: rank 0
\* stands for the launcher, and every process goes on to line 170.
LStart ==
  /\ lpc = "start"
  /\ IF script = "multinode"
     THEN /\ world_size' = env_world_size
          /\ pc' = [r \in Ranks |-> IF r < env_world_size THEN "main" ELSE pc[r]]
          /\ lpc' = "in_run"
          /\ UNCHANGED n_devices
     ELSE /\ n_devices' =
               IF script = "mag240m"
               THEN EffectiveDevices(cuda_available, device_count, req_n_devices)
               ELSE device_count
          /\ lpc' = "loaded"
          /\ UNCHANGED <<world_size, pc>>
  /\ UNCHANGED <<gwvars, inputs, spawn_calls, run_calls, lexc, hint_printed,
                 err, pg, idxvars, loopvars, accvars, wait_kind, saved,
                 tracevars>>

\* torch.distributed.init_process_group("nccl") in the multi-node __main__:
\* the process blocks until every process of the job has joined; after it
\* nprocs = dist.get_world_size() and dist.is_initialized() holds.
MainInit(r) ==
  /\ script = "multinode" /\ Active(r) /\ pc[r] = "main"
  /\ EnterCollective(r, "init")
  /\ UNCHANGED <<gwvars, inputs, lvars, pg, idxvars, loopvars, accvars, saved>>

\* mp.spawn(fn, args=..., nprocs=..., join=True), or mag240m's in-process
\* call of run on one device or none.
LLaunch ==
  /\ lpc = "loaded"
  /\ IF Spawns(script, n_devices)
     THEN /\ spawn_calls' = spawn_calls + 1
          /\ world_size' = n_devices
          /\ pc' = [r \in Ranks |-> IF r < n_devices THEN "entry" ELSE pc[r]]
          /\ lpc' = "joining"
          /\ UNCHANGED run_calls
     ELSE /\ run_calls' = run_calls + 1
          /\ world_size' = 1
          /\ pc' = [pc EXCEPT ![0] = "entry"]
          /\ lpc' = "in_run"
          /\ UNCHANGED spawn_calls
  /\ UNCHANGED <<gwvars, inputs, n_devices, hint_printed, lexc, err, pg, idxvars,
                 loopvars, accvars, wait_kind, saved, tracevars>>

Failed(r) == Active(r) /\ pc[r] \in {"raised", "killed"}

\* mp.spawn's join: when a worker fails, the others are terminated and the
\* failure is raised in the launcher (ProcessRaisedException for an exception
\* in the worker, ProcessExitedException for a worker that died); when all
\* have returned, spawn returns.  mag240m's handler prints the hint about RAM.
LJoin ==
  /\ lpc = "joining"
  /\ IF \E r \in Ranks : Failed(r)
     THEN \E r \in Ranks :
            /\ Failed(r)
            /\ lexc' = IF pc[r] = "killed" THEN "ProcessExitedException"
                       ELSE "ProcessRaisedException"
            /\ pc' = [q \in Ranks |->
                        IF Active(q) /\ pc[q] \notin {"raised", "killed", "done"}
                        THEN "terminated" ELSE pc[q]]
            /\ hint_printed' = Catches(script, lexc')
            /\ lpc' = IF Catches(script, lexc') THEN "done" ELSE "uncaught"
     ELSE /\ \A r \in Ranks : Active(r) => pc[r] = "done"
          /\ lpc' = "done"
          /\ UNCHANGED <<lexc, pc, hint_printed>>
  /\ UNCHANGED <<gwvars, inputs, n_devices, world_size, spawn_calls, run_calls,
                 err, pg, idxvars, loopvars, accvars, wait_kind, saved, tracevars>>

\* The in-process call returns, or its exception leaves the script.
LRunReturn ==
  /\ lpc = "in_run"
  /\ pc[0] \in {"done", "raised"}
  /\ IF pc[0] = "done"
     THEN lpc' = "done" /\ UNCHANGED lexc
     ELSE lpc' = "uncaught" /\ lexc' = err[0]
  /\ UNCHANGED <<gwvars, inputs, n_devices, world_size, spawn_calls, run_calls,
                 hint_printed, rvars>>

\* A spawned worker dies (a signal, the out-of-memory killer).
Kill(r) ==
  /\ lpc = "joining" /\ Active(r)
  /\ pc[r] \notin {"raised", "killed", "done", "terminated"}
  /\ pc' = [pc EXCEPT ![r] = "killed"]
  /\ UNCHANGED <<gwvars, inputs, lvars, err, pg, idxvars, loopvars, accvars,
                 wait_kind, saved, tracevars>>

\* The per-rank function initialises the process group itself in mag240m
\* (if n_devices > 1) and in the single-node script; the multi-node run_train
\* finds it initialised by __main__.
InitsGroup ==
  CASE script = "mag240m" -> n_devices > 1
    [] script = "singlenode" -> TRUE
    [] OTHER -> FALSE

\* The start of the per-rank function: the call binds its arguments (a
\* TypeError when their number is not the number of parameters), then
\* dist.init_process_group, which blocks until every rank of the group has
\* joined.
Enter(r) ==
  /\ Active(r) /\ pc[r] = "entry"
  /\ IF ~CallMatches(script, Spawns(script, n_devices))
     THEN Raise(r, "TypeError") /\ UNCHANGED wait_kind
     ELSE IF InitsGroup
     THEN EnterCollective(r, "init")
     ELSE /\ Goto(r, IF script = "mag240m" THEN "construct" ELSE "split")
          /\ UNCHANGED wait_kind
  /\ UNCHANGED <<gwvars, inputs, lvars, pg, idxvars, loopvars, accvars, saved>>

\* The names bound at module level in mag240m_graphsage.py (imports and
\* definitions).
ModuleNames ==
  {"argparse", "os", "time", "Dict", "List", "Tuple", "torch", "dist", "mp",
   "F", "MAG240MDataset", "MAG240MEvaluator", "Tensor", "Embedding", "Linear",
   "DistributedDataParallel", "Accuracy", "tqdm", "seed_everything", "Batch",
   "NeighborLoader", "HeteroConv", "SAGEConv", "BatchNorm", "Adj", "EdgeType",
   "NodeType", "common_step", "training_step", "validation_step",
   "predict_step", "SAGEConvLayer", "GraphSAGE", "run"}

\* The global names GraphSAGE.__init__ and SAGEConvLayer.__init__ look up.
ConstructNames ==
  {"torch", "SAGEConvLayer", "HeteroConv", "conv_type", "kwargs", "nn",
   "BatchNorm"}

\* model = GraphSAGE(...): a name that is not bound raises NameError.
Construct(r) ==
  /\ Active(r) /\ pc[r] = "construct"
  /\ IF ConstructNames \subseteq ModuleNames
     THEN Goto(r, "split")
     ELSE Raise(r, "NameError")
  /\ UNCHANGED <<gwvars, inputs, lvars, pg, idxvars, loopvars, accvars,
                 wait_kind, saved>>

RankStep(r) ==
  \/ Enter(r) \/ Construct(r) \/ SplitIdx(r) \/ Wrap(r) \/ EpochLoop(r)
  \/ Fetch(r) \/ BodyStep(r) \/ BodyEnd(r) \/ AfterTrain(r) \/ Summary(r)
  \/ EvalPass(r) \/ AllReduce(r) \/ PrintAcc(r) \/ TestPass(r) \/ Teardown(r)

NextTrain == (\E r \in Ranks : RankStep(r)) \/ CollectiveComplete

(***************************************************************************)
(* The per-rank function of the two scripts whose launcher reaches it, from *)
(* the moment the launcher has started the ranks (mp.spawn or the          *)
(* in-process call of mag240m).  The multi-node launcher never enters      *)
(* run_train: its call raises TypeError.                                   *)
(***************************************************************************)
\* Loader lengths explored, per script: the shortest, the longest, and the
\* lengths around the thresholds of the code (the papers100m warm-up
\* constant for training, the cap for validation).
TrainBatches(s) ==
  IF s = "singlenode"
  THEN {1, MaxBatches} \cup {warmup_steps + b : b \in 0..2}
  ELSE {1, MaxBatches}

EvalBatches(s) ==
  IF s = "mag240m" THEN {1, MaxBatches + 1}
  ELSE {1, eval_steps_papers, eval_steps_papers + 1}

TestBatches(s) ==
  IF s = "mag240m" THEN {1, MaxBatches + 1} ELSE {1, MaxBatches}

\* The index counts: a per-rank shard of whole batches (or of one index, for
\* a training loader that drops its only, incomplete batch), plus a remainder.
InitCounts(rem) ==
  /\ n_train \in {sz * world_size + rem :
                    sz \in {1} \cup {b * batch_size : b \in TrainBatches(script)}}
  /\ n_valid \in {b * batch_size * (IF SplitsEval THEN world_size ELSE 1) + rem :
                    b \in EvalBatches(script)}
  /\ n_test \in {b * batch_size * (IF SplitsEval THEN world_size ELSE 1) + rem :
                    b \in TestBatches(script)}

InitLoopInputs ==
  /\ batch_size = BatchSize
  /\ num_epochs \in {1, MaxEpochs}
  /\ num_steps_per_epoch \in
       IF script = "mag240m" THEN {-1, 0, 1, MaxBatches} ELSE {-1}
  /\ eval_steps \in IF script = "mag240m" THEN {0, 1}
                    ELSE {eval_steps_papers}
  /\ num_warmup_iters_for_timing \in
       IF script = "mag240m" THEN {1, WarmupDefault} ELSE {warmup_steps}
  /\ acc_val \in IF script = "mag240m" THEN {0, 1} ELSE {1}
  /\ log_every_n_steps \in IF script = "mag240m" THEN {0, 1} ELSE {1}
  /\ \E rem \in {0, MaxRem} : InitCounts(rem)

\* The state LLaunch leaves: every rank at the entry of the function.
InitTrain ==
  /\ script \in {"mag240m", "singlenode"}
  /\ GwIdle
  /\ n_devices \in IF script = "mag240m" THEN {0, 1, MaxWorld} ELSE {1, MaxWorld}
  /\ device_count = n_devices /\ req_n_devices = n_devices
  /\ env_world_size = 1
  /\ cuda_available = (device_count > 0)
  /\ world_size = IF Spawns(script, n_devices) THEN n_devices ELSE 1
  /\ lpc = IF Spawns(script, n_devices) THEN "joining" ELSE "in_run"
  /\ spawn_calls = IF Spawns(script, n_devices) THEN 1 ELSE 0
  /\ run_calls = IF Spawns(script, n_devices) THEN 0 ELSE 1
  /\ lexc = "none" /\ hint_printed = FALSE
  /\ InitLoopInputs
  /\ RanksInit([r \in Ranks |-> IF Active(r) THEN "entry" ELSE "idle"],
               [r \in Ranks |-> FALSE])

SpecTrain == InitTrain /\ [][NextTrain]_vars

\* The inputs of a whole run of a script.
Init ==
  /\ script \in Scripts
  /\ GwIdle
  /\ device_count \in IF script = "multinode" THEN {1} ELSE 0..MaxWorld
  /\ env_world_size \in IF script = "multinode" THEN 1..MaxWorld ELSE {1}
  /\ cuda_available = (device_count > 0)
  /\ req_n_devices \in IF script = "mag240m" THEN -1..(MaxWorld + 1) ELSE {1}
  /\ batch_size = BatchSize
  /\ num_epochs \in {1, MaxEpochs}
  /\ num_steps_per_epoch = -1
  /\ eval_steps = IF script = "mag240m" THEN MaxBatches ELSE eval_steps_papers
  /\ num_warmup_iters_for_timing =
       IF script = "mag240m" THEN WarmupDefault ELSE warmup_steps
  /\ acc_val = 1
  /\ log_every_n_steps = 1
  /\ n_train \in {b * batch_size * MaxWorld :
                    b \in {MaxBatches, warmup_steps + MaxBatches}}
  /\ n_valid \in {b * batch_size * MaxWorld : b \in 1..MaxBatches}
  /\ n_test = batch_size * MaxWorld
  /\ lpc = "start" /\ n_devices = 0 /\ world_size = 0
  /\ spawn_calls = 0 /\ run_calls = 0 /\ lexc = "none" /\ hint_printed = FALSE
  /\ RanksIdle

Next ==
  \/ LStart \/ LLaunch \/ LJoin \/ LRunReturn
  \/ \E r \in Ranks : MainInit(r)
  \/ \E r \in Ranks : Kill(r)
  \/ NextTrain

Spec == Init /\ [][Next]_vars

Waiting(r) == Active(r) /\ pc[r] = "wait"

Left(r) == Active(r) /\ pc[r] \in {"raised", "done"}

Five == <<"zero_grad", "forward", "loss", "backward", "step">>

IsPrefix(a, b) == Len(a) <= Len(b) /\ a = SubSeq(b, 1, Len(a))

\* The batches of this epoch a rank has drawn and not skipped.
NotSkipped(r) ==
  IF StepLimitHit(n_iter[r] - 1) /\ n_iter[r] > 0 THEN n_iter[r] - 1
  ELSE n_iter[r]

InTrainLoop(r) == pc[r] \in {"train_loop", "body", "body_end", "after_train"}
                  \/ (pc[r] = "wait" /\ wait_kind[r] = "grad")

\* C3: in all three scripts, for every batch drawn from the training loader
\* and not skipped by a step limit, the rank performs zero_grad, forward,
\* loss, backward and optimizer step, once each and in this order; no
\* optimizer step happens without the zero_grad and the backward of the same
\* batch before it.
C3_TrainOrder ==
  \A r \in Ranks : Active(r) =>
    /\ IsPrefix(ops[r], Five)
    /\ pc[r] = "body" => Len(ops[r]) < Len(Five)
    /\ pc[r] = "body_end" => ops[r] = Five
    /\ (InTrainLoop(r) /\ pc[r] \notin {"body", "wait"}) =>
         steps[r] = NotSkipped(r)
    /\ (InTrainLoop(r) /\ pc[r] \in {"body", "wait"}) =>
         steps[r] = NotSkipped(r) - (IF Len(ops[r]) = Len(Five) THEN 0 ELSE 1)
    /\ (InTrainLoop(r) /\ steps[r] > 0 /\ pc[r] \notin {"body", "wait"}) =>
         ops[r] = Five

\* A single-node rank has trained on every batch of its shard, past the
\* warm-up, and left the loop.
C3_Witness ==
  /\ script = "singlenode" /\ pc[0] = "after_train"
  /\ TrainLen(0) > warmup_steps /\ n_iter[0] = TrainLen(0)
  /\ steps[0] = TrainLen(0) /\ ops[0] = Five

\* C4: every printed validation and test accuracy is the all-reduced sum of
\* the per-batch accuracies divided by exactly the number of batches the
\* pass evaluated.
C4_AverageDivisor ==
  \A r \in Ranks : \A k \in 1..Len(printed[r]) :
    printed[r][k].div = printed[r][k].batches

\* C5: in mag240m, --num_steps_per_epoch = -1 trains on every batch of the
\* loader in each epoch; k >= 0 takes exactly min(k, number of batches)
\* optimizer steps in each epoch, and the epoch then completes (summary
\* print, then validation) for every k including 0: no rank leaves run by an
\* exception with an epoch still to train.
C5_StepsPerEpoch ==
  script = "mag240m" =>
    \A r \in Ranks : Active(r) =>
      /\ pc[r] \in {"summary", "eval"} =>
           steps[r] = IF num_steps_per_epoch = -1 THEN TrainLen(r)
                      ELSE Min(num_steps_per_epoch, TrainLen(r))
      /\ pc[r] = "raised" => epoch[r] = num_epochs

LastPrinted(r) == printed[r][Len(printed[r])]

TestPrinted(r) == Len(printed[r]) > 0 /\ LastPrinted(r).kind = "test"

\* C8: only mag240m persists a model: a mag240m rank leaves run with the
\* file written, after the test accuracy is computed and before the
\* assertion is evaluated, so the file is written whether or not the
\* threshold is met, and the run ends successfully only if it is met; the
\* papers100m scripts never write a model file.
C8_ModelSaved ==
  \A r \in Ranks :
    /\ script # "mag240m" => ~saved[r]
    /\ (script = "mag240m" /\ Left(r)) => saved[r]
    /\ saved[r] => TestPrinted(r)
    /\ (script = "mag240m" /\ TestPrinted(r) /\ pc[r] # "teardown") => saved[r]
    /\ (script = "mag240m" /\ pc[r] = "raised" /\ err[r] = "AssertionError") =>
         /\ saved[r]
         /\ 100 * LastPrinted(r).num
              < AccThreshold * LastPrinted(r).den * LastPrinted(r).div
    /\ (script = "mag240m" /\ pc[r] = "done") =>
         /\ saved[r]
         /\ 100 * LastPrinted(r).num
              >= AccThreshold * LastPrinted(r).den * LastPrinted(r).div

InChunk(x, c) == c.start <= x /\ x < c.start + c.length

AllSplit ==
  \A r \in Ranks : Active(r) =>
    pc[r] # "raised" /\ Loc(r) \notin {"entry", "init", "construct", "split"}

PartitionedBy(N, shards) ==
  /\ NumChunks(N, N \div world_size) = world_size
  /\ \A r1, r2 \in Ranks : (Active(r1) /\ Active(r2) /\ r1 # r2) =>
       \A x \in 0..(N - 1) : ~(InChunk(x, shards[r1]) /\ InChunk(x, shards[r2]))
  /\ \A x \in 0..(N - 1) : \E r \in Ranks : Active(r) /\ InChunk(x, shards[r])

\* C10: for every index count N >= world_size and world_size > 1, splitting
\* the training indices (in mag240m also the validation and test indices)
\* with chunk length floor(N / world_size) yields exactly world_size chunks:
\* each rank owns one, the chunks are pairwise disjoint and every index
\* belongs to some rank's chunk.
C10_SplitPartition ==
  (world_size > 1 /\ Distributed /\ AllSplit) =>
    /\ PartitionedBy(n_train, train_idx)
    /\ SplitsEval => /\ PartitionedBy(n_valid, eval_idx)
                     /\ PartitionedBy(n_test, test_idx)

Launched == lpc \in {"joining", "in_run", "done", "uncaught"}

Finished == lpc \in {"done", "uncaught"}

SpawnPath == script = "mag240m" /\ spawn_calls > 0

\* C6: a worker failure during spawn is caught in exactly one place, the
\* multi-GPU path of mag240m: there the ProcessExitedException is caught, the
\* hint about RAM is printed, nothing is retried and the launcher ends
\* without re-raising; in mag240m's in-process path and in both papers100m
\* scripts every failure leaves the script uncaught.
C6_SpawnFailureHandling ==
  /\ spawn_calls <= 1 /\ run_calls <= 1
  /\ hint_printed =>
       /\ SpawnPath /\ lexc = "ProcessExitedException" /\ lpc = "done"
  /\ (SpawnPath /\ lexc = "ProcessExitedException") =>
       /\ hint_printed /\ lpc = "done"
  /\ (lexc # "none" /\ ~(SpawnPath /\ lexc = "ProcessExitedException")) =>
       lpc = "uncaught"

\* The mag240m launcher has caught the death of a spawned worker and ended.
C6_Witness ==
  /\ script = "mag240m" /\ spawn_calls = 1 /\ lpc = "done" /\ hint_printed
  /\ lexc = "ProcessExitedException" /\ \E r \in Ranks : pc[r] = "killed"

NoWorkerDied == \A r \in Ranks : pc[r] \notin {"killed", "terminated"}

\* C7: in each script, a run in which every external call succeeds goes
\* through set-up, training and evaluation and prints a test accuracy on
\* every rank; in particular the launcher calls the per-rank function with
\* arguments that match its parameters.
C7_RunPrintsTestAccuracy ==
  /\ lexc # "TypeError"
  /\ \A r \in Ranks : err[r] \notin {"TypeError", "NameError"}
  /\ (Finished /\ NoWorkerDied) =>
       \A r \in Ranks : Active(r) => TestPrinted(r)

\* C9: in the mag240m launcher, the n_devices handed to run is 0 whenever
\* CUDA is unavailable and otherwise never exceeds the number of GPUs; the
\* multi-process path is taken exactly when it is > 1, spawning exactly
\* n_devices workers with ranks 0..n_devices-1, and otherwise run is called
\* exactly once in-process with rank 0.
C9_DeviceSelection ==
  (script = "mag240m" /\ Launched) =>
    /\ ~cuda_available => n_devices = 0
    /\ cuda_available => n_devices <= device_count
    /\ n_devices > 1 <=> spawn_calls = 1
    /\ n_devices > 1 =>
         /\ run_calls = 0 /\ world_size = n_devices
         /\ \A r \in Ranks : pc[r] # "idle" <=> r < n_devices
    /\ n_devices <= 1 =>
         /\ run_calls = 1 /\ spawn_calls = 0 /\ world_size = 1
         /\ \A r \in Ranks : pc[r] # "idle" <=> r = 0

\* More GPUs were requested than exist: the launcher has spawned one worker
\* per existing GPU.
C9_Witness ==
  /\ script = "mag240m" /\ lpc = "joining" /\ cuda_available
  /\ req_n_devices > device_count /\ device_count = 2 /\ n_devices = 2
  /\ pc[0] # "idle" /\ pc[1] # "idle"

\* C11: in a multi-process run of any of the three scripts, all ranks issue
\* the same sequence of collective operations: two ranks blocked in a
\* collective are blocked in the same one, with the same number of training
\* steps behind them in the same epoch; a rank that returns has printed one
\* accuracy per validation pass and one for the test pass; and no rank is
\* blocked in a collective while another rank has left the function.
C11_SameCollectives ==
  world_size > 1 =>
    \A r, q \in Ranks :
      /\ (Waiting(r) /\ Waiting(q)) =>
           /\ wait_kind[r] = wait_kind[q]
           /\ epoch[r] = epoch[q]
           /\ wait_kind[r] # "grad" => steps[r] = steps[q]
      /\ (Active(r) /\ pc[r] = "done") => Len(printed[r]) = num_epochs + 1
      /\ Waiting(r) => ~Left(q)

\* Two single-node ranks, each with its whole shard trained, are blocked in
\* the all-reduce of the same validation pass.
C11_Witness ==
  /\ script = "singlenode" /\ world_size = 2
  /\ Waiting(0) /\ Waiting(1)
  /\ wait_kind[0] = "ar_val" /\ wait_kind[1] = "ar_val"
  /\ steps[0] > warmup_steps /\ steps[0] = steps[1]

AfterBarrierOfEpoch == {"summary", "eval", "val_reduce", "ar_val", "print_val"}

\* Rank q has left the training loop of epoch e.
FinishedTrain(q, e) ==
  \/ epoch[q] > e
  \/ epoch[q] = e
     /\ Loc(q) \in {"after_train", "barrier_epoch"} \cup AfterBarrierOfEpoch

\* Rank r has run the validation loop of epoch e.
StartedVal(r, e) ==
  \/ epoch[r] > e
  \/ epoch[r] = e /\ Loc(r) \in {"val_reduce", "ar_val", "print_val"}

\* Rank r has run the test loop.
StartedTest(r) ==
  Loc(r) \in {"test_reduce", "ar_test", "print_test", "teardown", "done"}

\* C12: in a mag240m run with n_devices > 1, no rank starts the validation
\* pass of epoch e before every rank has finished the training loop of epoch
\* e, and no rank starts the test pass before every rank has finished the
\* validation pass of the last epoch; a rank has passed one barrier per
\* training loop it has left behind and one more before the test pass, so a
\* rank that leaves run has passed one barrier per epoch and the final one.
C12_BarrierOrdering ==
  (script = "mag240m" /\ n_devices > 1) =>
    \A r, q \in Ranks : (Active(r) /\ Active(q)) =>
      /\ \A e \in 0..(num_epochs - 1) : StartedVal(r, e) => FinishedTrain(q, e)
      /\ StartedTest(r) => epoch[q] = num_epochs
      /\ (epoch[r] < num_epochs /\ Loc(r) \in AfterBarrierOfEpoch) =>
           barriers[r] = epoch[r] + 1
      /\ StartedTest(r) => barriers[r] = num_epochs + 1
      /\ Left(r) => barriers[r] = num_epochs + 1

\* The collective calls of run: the two barriers and the two all-reduces.
InCollective(r) ==
  Waiting(r) /\ CollType(wait_kind[r]) \in {"barrier", "all_reduce"}

\* C13: in mag240m's run, every collective call (dist.barrier,
\* torch.distributed.all_reduce) is executed only while a process group is
\* initialised, for every n_devices: no rank is in a collective without a
\* group, and no collective is called in a run that never initialised one or
\* that has destroyed it.
C13_CollectivesInsideGroup ==
  script = "mag240m" =>
    \A r \in Ranks : Active(r) =>
      /\ InCollective(r) => pg[r]
      /\ ~(pc[r] = "raised" /\ err[r] = "NoProcessGroup")

====
